---------------------------- MODULE Spec2Model ----------------------------
(***************************************************************************)
(* A state-machine model of the CapsNet model bundle of capsnet/network.py: *)
(* the constructor (graph assembly and its output shapes), the training    *)
(* loop with its Keras callbacks (CSVLogger, ModelCheckpoint,              *)
(* EarlyStopping, History), weight save/load, and the tar.gz archive codec *)
(* (save / load).                                                          *)
(*                                                                         *)
(* Weight tensors live in a per-bundle store `tensors`; each named model   *)
(* maps its layer names to references into that store, so that two models  *)
(* built from the same layer objects alias the same tensors and two models *)
(* rebuilt separately from YAML do not.                                    *)
(***************************************************************************)
EXTENDS Integers, Sequences, FiniteSets, TLC

(***************************************************************************)
(* Bounds of the model.                                                    *)
(***************************************************************************)
\* weight values are taken modulo WMod
WMod == 3
\* the epoch caps a train call of the lifecycle specification may be given
MaxLifeEpochs == 1
\* the longest run whose accuracy sequence is enumerated freely (TrainSpec)
MaxShortEpochs == 4
\* the largest epoch cap of a long run (TrainSpec)
MaxEpochs == 24
\* how many epochs of a long run may improve the validation loss
MaxDrops == 1
\* the largest batch whose output shapes are computed
MaxBatch == 4

(***************************************************************************)
(* Program constants.                                                      *)
(***************************************************************************)
\* cbs.EarlyStopping(monitor='val_loss', verbose=1, patience=20)
Patience == 20
\* init_conv_filters=256, init_conv_kernel=9
InitConvFilters == 256
InitConvKernel == 9
\* feature_caps_kernel=5
FeatureCapsKernel == 5
\* prediction_caps_dim=32
PredictionCapsDim == 32

MODELS == {"train", "test"}

\* The layers that own weights.  The nested Sequential 'decoder' is one
\* weighted layer of the 'train' model and is absent from 'test'.
TestLayers == {"encoder_conv2d", "encoder_feature_caps", "encoder_pred_caps"}
TrainLayers == TestLayers \cup {"decoder"}

LayersOf(m) == IF m = "train" THEN TrainLayers ELSE TestLayers

\* image_size=(32, 32)
DefaultImageSize == <<32, 32>>

(***************************************************************************)
(* Layer shape arithmetic (shapes without the batch axis).                 *)
(***************************************************************************)
\* input_shape is usable by Conv2D only as a (H, W, C) triple of positive
\* sizes: Conv2D demands a 4-D input (batch + 3).
ValidShape(s) == Len(s) = 3 /\ \A i \in 1..3 : s[i] >= 1

\* padding='valid' convolution, kernel k, stride st
Conv2DValid(s, filters, k, st) ==
    << ((s[1] - k) \div st) + 1, ((s[2] - k) \div st) + 1, filters >>

\* padding='same', stride 1: the spatial size is kept
Conv2DSame(s, filters) == << s[1], s[2], filters >>

\* activations.resize: tf.image.resize_nearest_neighbor(inputs, target_shape)
resize(s, target_shape) == << target_shape[1], target_shape[2], s[3] >>

\* activations.length: sqrt(sum(square(inputs), -1) + epsilon) drops the
\* last axis
length(s) == SubSeq(s, 1, Len(s) - 1)

\* layers.Reshape(target_shape=(5, 5, 16)) of the Dense(400) output
DecoderReshape == <<5, 5, 16>>

\* The decoder's output shape: it depends on image_size only.
DecoderShape(image_size) ==
    LET r1 == resize(DecoderReshape, <<8, 8>>)
        c1 == Conv2DSame(r1, 4)
        r2 == resize(c1, <<16, 16>>)
        c2 == Conv2DSame(r2, 8)
        r3 == resize(c2, image_size)
        c3 == Conv2DSame(r3, 16)
        c4 == Conv2DSame(c3, 3)
    IN  c4

\* PredictionCapsule(capsule_count=bins, capsule_dim=prediction_caps_dim)
\* yields (batch, bins, capsule_dim)
PredictionCapsShape(bins) == << bins, PredictionCapsDim >>

\* The best (largest) of a non-empty set of numbers, and the least.
Max(S) == CHOOSE x \in S : \A y \in S : y <= x
Min(S) == CHOOSE x \in S : \A y \in S : x <= y

\* A shape with the batch axis put in front.
Batched(n, s) == <<n>> \o s


(***************************************************************************)
(* State.                                                                  *)
(***************************************************************************)
VARIABLES
    obj,    \* the CapsNet object the caller holds (net = CapsNet(...) or
            \* net, labels = CapsNet.load(...))
    fs,     \* the file system: save_dir, the archive directory, the cwd
    run,    \* the fit_generator loop of the train call in progress
    last    \* the most recent call: its operation, outcome and, when it
            \* raised, the object it was working on

vars == << obj, fs, run, last >>

\* References into a bundle's tensor store.
Refs == {"a", "b"} \X TrainLayers

\* The kernel initializers give every layer its own start value.
InitWeight(l) ==
    CASE l = "encoder_conv2d" -> 0
      [] l = "encoder_feature_caps" -> 1
      [] l = "encoder_pred_caps" -> 2
      [] OTHER -> 3

FreshTensors == [r \in Refs |-> InitWeight(r[2]) % WMod]

\* Both models are built over the same layer objects (network.py 166-175):
\* every layer of either model refers to the one tensor of that layer.
SharedModels ==
    [train |-> [l \in TrainLayers |-> <<"a", l>>],
     test  |-> [l \in TestLayers |-> <<"a", l>>]]

\* model_from_yaml is called once per model name (network.py 374-379): each
\* call instantiates layers, hence tensors, of its own.
SeparateModels ==
    [train |-> [l \in TrainLayers |-> <<"a", l>>],
     test  |-> [l \in TestLayers |-> <<"b", l>>]]

\* What a model's architecture description (to_yaml) says of its shapes.
NoArch == [input_shape |-> <<>>, bins |-> 0, recon |-> <<>>]

\* No object.
Absent ==
    [exists      |-> FALSE,
     has_bins    |-> FALSE,
     bins        |-> 0,
     names       |-> {},
     arch        |-> NoArch,
     models      |-> SharedModels,
     tensors     |-> FreshTensors,
     has_history |-> FALSE,
     history     |-> <<>>]

\* skip_init=True (network.py 65-67): only _models = {} is set.
SkipInitBinsSet == [Absent EXCEPT !.exists = TRUE, !.has_bins = TRUE, !.bins = 2]

EmptyBundle == [Absent EXCEPT !.exists = TRUE]

\* The weight of layer l as model m of bundle b sees it.
Weight(b, m, l) == b.tensors[b.models[m][l]]

\* All the weights of model m, by layer name (what save_weights writes).
WeightsOf(b, m) == [l \in LayersOf(m) |-> Weight(b, m, l)]

\* Whether self._models[m] exists.
HasModel(b, m) == b.exists /\ m \in b.names

\* Whether the bundle is populated: both models are in _models.
Populated(b) == b.exists /\ b.names = MODELS

(***************************************************************************)
(* Files.                                                                  *)
(***************************************************************************)
\* A weights file (h5) holds the weights of the 'train' model by layer.
NoFile == [present |-> FALSE, w |-> [l \in TrainLayers |-> 0]]

WeightsFile(w) == [present |-> TRUE, w |-> w]

\* A file the user keeps in the current directory under the name
\* 'weights.h5', unrelated to any archive.
UserFile == WeightsFile([l \in TrainLayers |-> 0])

\* The members of an archive (spec 6; network.py 330, 338, 345).
MEMBERS == {"train.yml", "test.yml", "weights.h5", "labels.yml"}

NoLabels == << >>

\* The archive being written: no member yet.
EmptyArchive ==
    [members |-> {}, arch |-> NoArch, w |-> NoFile.w, labels |-> NoLabels,
     closed |-> FALSE]

EmptyFs ==
    [save_dir     |-> FALSE,
     log          |-> FALSE,
     log_rows     |-> 0,
     ckpts        |-> << >>,
     weights_file |-> NoFile,
     tmp_weights  |-> NoFile,
     cwd_weights  |-> NoFile,
     archives     |-> << >>]

(***************************************************************************)
(* The outcome of a call.                                                  *)
(***************************************************************************)
NoArc == [bins |-> -1, acc |-> -1]

\* The object a raising call was working on: whether self.bins was set,
\* the layers it had added to the graph, the models it had (re)built and
\* the models it had loaded weights into.
NoSelf == [has_bins |-> FALSE, layers |-> {}, built |-> {}, weighted |-> {}]

\* The arguments of a constructor call.
NoArgs == [input_shape |-> << >>, bins |-> 0, skip_init |-> TRUE]

Call(op, res, err) ==
    [op |-> op, res |-> res, err |-> err,
     args |-> NoArgs, arc |-> NoArc, members |-> {}, out |-> -1,
     labels |-> NoLabels, self |-> NoSelf]

NoCall == Call("none", "ok", "")

\* The fit loop when no train call is in progress.
NoRun ==
    [active        |-> FALSE,
     epochs        |-> 0,
     val_loss      |-> << >>,
     val_acc       |-> << >>,
     epoch         |-> 0,
     ck_best       |-> -1,
     es_best       |-> -1,
     es_wait       |-> 0,
     stop_training |-> FALSE,
     history       |-> << >>]

(***************************************************************************)
(* CapsNet.__init__ (network.py 50-175)                                    *)
(***************************************************************************)
\* The layers in the order the constructor builds them.
BuildOrder ==
    << "input_image", "encoder_conv2d", "encoder_dropout",
       "encoder_feature_caps", "encoder_pred_caps", "capsnet",
       "input_label", "decoder", "mask" >>

\* FeatureCapsule(kernel_size=5, strides=2, padding='valid'): a strided
\* convolution-like grouping of the convolution output.
FeatureCapsFits(conv) ==
    conv[1] >= FeatureCapsKernel /\ conv[2] >= FeatureCapsKernel

\* PredictionCapsule(capsule_count=bins): bins is a positive integer >= 1.
PredictionCapsFits(bins) == bins >= 1

\* The index in BuildOrder of the layer whose construction raises, 0 if
\* none does.  Nothing checks input_shape or bins before the layers do:
\* layers.Input takes any shape; Conv2D raises on an input that is not
\* 4-D or that is smaller than its kernel.
FailingLayer(input_shape, bins) ==
    IF ~ValidShape(input_shape) THEN 2
    ELSE LET conv == Conv2DValid(input_shape, InitConvFilters, InitConvKernel, 1)
         IN  IF conv[1] < 1 \/ conv[2] < 1 THEN 2
             ELSE IF ~FeatureCapsFits(conv) THEN 4
             ELSE IF ~PredictionCapsFits(bins) THEN 5
             ELSE 0

\* The architecture of the bundle the constructor builds: the decoder ends
\* in DecoderShape(image_size) whatever input_shape is.
BuiltArch(input_shape, bins, image_size) ==
    [input_shape |-> input_shape, bins |-> bins,
     recon |-> DecoderShape(image_size)]

Construct(input_shape, bins, skip_init) ==
    /\ ~run.active
    /\ IF skip_init
       THEN /\ obj' = EmptyBundle
            /\ last' = Call("init", "ok", "")
       ELSE LET f == FailingLayer(input_shape, bins)
                args == [input_shape |-> input_shape, bins |-> bins,
                         skip_init |-> FALSE]
            IN  IF f = 0
                THEN /\ obj' = [Absent EXCEPT
                                 !.exists = TRUE,
                                 !.has_bins = TRUE,
                                 !.bins = bins,
                                 !.names = MODELS,
                                 !.arch = BuiltArch(input_shape, bins,
                                                    DefaultImageSize)]
                     /\ last' = [Call("init", "ok", "") EXCEPT !.args = args]
                ELSE \* self.bins = bins (line 68) came first; the layers
                     \* before the failing one are in the graph; the
                     \* caller's variable is not rebound
                     /\ obj' = obj
                     /\ last' = [Call("init", "error", BuildOrder[f])
                                 EXCEPT !.args = args,
                                        !.self = [NoSelf EXCEPT
                                           !.has_bins = TRUE,
                                           !.layers = {BuildOrder[i] :
                                                       i \in 1..(f - 1)}]]
    /\ UNCHANGED << fs, run >>

\* The output shapes of model m of bundle b for a batch of n images.
OutputShape(b, m, n) ==
    LET cls == Batched(n, length(PredictionCapsShape(b.arch.bins)))
    IN  IF m = "train" THEN << cls, Batched(n, b.arch.recon) >>
        ELSE << cls >>

(***************************************************************************)
(* CapsNet.train (network.py 178-245) and the Keras callbacks it installs. *)
(* Accuracies are in thousandths (0.575 is 575), losses are integers.      *)
(***************************************************************************)
\* ModelCheckpoint(monitor='val_capsnet_acc', save_best_only=True): the
\* monitor holds 'acc', so the comparison is np.greater and best starts at
\* -Inf (here -1, below every accuracy).
CheckpointImprovedOrTied(current, best) == current >= best

CheckpointImproved(current, best) == current > best

\* EarlyStopping(monitor='val_loss'): np.less, best starts at +Inf (here -1,
\* which stands for "no loss seen yet").
EarlyStopImproved(current, best) == best = -1 \/ current < best

\* EarlyStopping stops once wait >= patience.
StopNowLate(wait) == wait > Patience

StopNow(wait) == wait >= Patience

\* The target of the 'mse' loss is the input image (validation_data and
\* dataset_gen pair the image with itself): its shape has to be the
\* decoder's output shape.
TargetsFit(b) == b.arch.recon = b.arch.input_shape

\* One epoch of gradient descent moves every tensor of the 'train' model
\* (to the next value: the values stand for versions of a tensor).
Fit(b) ==
    [b EXCEPT !.tensors =
        [r \in Refs |->
            IF \E l \in TrainLayers : b.models.train[l] = r
            THEN (b.tensors[r] + 1) % WMod
            ELSE b.tensors[r]]]

\* train up to the first epoch: lines 207-212 and the start of
\* fit_generator (compile, on_train_begin of every callback).
TrainBegin(epochs, val_loss, val_acc) ==
    /\ ~run.active
    /\ obj.exists
    /\ IF ~HasModel(obj, "train")
       THEN \* self._models['train'] raises KeyError (line 208)
            /\ last' = Call("train", "error", "KeyError")
            /\ UNCHANGED << obj, fs, run >>
       ELSE IF ~TargetsFit(obj)
       THEN \* the first batch raises: save_dir was made and CSVLogger
            \* has opened (and truncated) log.csv
            /\ fs' = [fs EXCEPT !.save_dir = TRUE, !.log = TRUE,
                                !.log_rows = 0]
            /\ last' = Call("train", "error", "ValueError")
            /\ UNCHANGED << obj, run >>
       ELSE /\ fs' = [fs EXCEPT !.save_dir = TRUE, !.log = TRUE,
                                !.log_rows = 0]
            /\ run' = [NoRun EXCEPT !.active = TRUE,
                                    !.epochs = epochs,
                                    !.val_loss = val_loss,
                                    !.val_acc = val_acc]
            /\ last' = Call("train", "running", "")
            /\ UNCHANGED obj

\* One pass of the epoch loop of fit_generator: the steps of the epoch,
\* the validation, then on_epoch_end of CSVLogger, ModelCheckpoint,
\* EarlyStopping and History, in that order.
EpochEnd ==
    /\ run.active
    /\ run.epoch < run.epochs
    /\ ~run.stop_training
    /\ LET e        == run.epoch + 1
            fitted   == Fit(obj)
            loss     == run.val_loss[e]
            acc      == run.val_acc[e]
            save     == CheckpointImproved(acc, run.ck_best)
            improved == EarlyStopImproved(loss, run.es_best)
            wait     == IF improved THEN 0 ELSE run.es_wait + 1
        IN  /\ obj' = fitted
            /\ fs' = [fs EXCEPT
                        !.log_rows = @ + 1,
                        !.ckpts = IF save
                                  THEN (e :> WeightsOf(fitted, "train")) @@ @
                                  ELSE @]
            /\ run' = [run EXCEPT
                        !.epoch = e,
                        !.ck_best = IF save THEN acc ELSE @,
                        !.es_best = IF improved THEN loss ELSE @,
                        !.es_wait = wait,
                        !.stop_training = ~improved /\ StopNow(wait),
                        !.history = Append(@, [val_loss |-> loss,
                                               val_capsnet_acc |-> acc])]
    /\ last' = Call("train", "running", "")

\* fit_generator returns its History, which train stores in self.history
\* (line 236) and returns.
TrainReturn ==
    /\ run.active
    /\ (run.epoch >= run.epochs \/ run.stop_training)
    /\ obj' = [obj EXCEPT !.has_history = TRUE, !.history = run.history]
    /\ run' = [run EXCEPT !.active = FALSE]
    /\ last' = Call("train", "ok", "")
    /\ UNCHANGED fs

(***************************************************************************)
(* test, predict, summary (network.py 247-282, 399-401)                    *)
(***************************************************************************)
\* What the 'test' model computes for input x: a function of its weights.
PredictValue(b, x) ==
    x + Weight(b, "test", "encoder_conv2d")
      + WMod * Weight(b, "test", "encoder_feature_caps")
      + WMod * WMod * Weight(b, "test", "encoder_pred_caps")

\* The input batches predict and test are given.
Inputs == {0, 1}

Predict(x) ==
    /\ ~run.active
    /\ obj.exists
    /\ last' = IF HasModel(obj, "test")
               THEN [Call("predict", "ok", "") EXCEPT
                        !.out = PredictValue(obj, x)]
               ELSE Call("predict", "error", "KeyError")
    /\ UNCHANGED << obj, fs, run >>

Test(x) ==
    /\ ~run.active
    /\ obj.exists
    /\ last' = IF HasModel(obj, "test")
               THEN [Call("test", "ok", "") EXCEPT
                        !.out = PredictValue(obj, x)]
               ELSE Call("test", "error", "KeyError")
    /\ UNCHANGED << obj, fs, run >>

Summary ==
    /\ ~run.active
    /\ obj.exists
    /\ last' = IF HasModel(obj, "train")
               THEN Call("summary", "ok", "")
               ELSE Call("summary", "error", "KeyError")
    /\ UNCHANGED << obj, fs, run >>

(***************************************************************************)
(* load_weights, save_weights (network.py 284-303)                         *)
(***************************************************************************)
\* model.load_weights(file): the file's layers go, in order, into every
\* weighted layer of the model.
LoadWeightsTopological(b, m, w) ==
    [b EXCEPT !.tensors =
        [r \in Refs |->
            IF \E l \in LayersOf(m) : b.models[m][l] = r
            THEN w[r[2]] ELSE b.tensors[r]]]

\* model.load_weights(file, by_name=True): only the layers whose name is in
\* the file take its weights.
LoadWeightsByNameSkipped(b, m, w) == b

LoadWeightsByName(b, m, w) ==
    [b EXCEPT !.tensors =
        [r \in Refs |->
            IF \E l \in LayersOf(m) \cap DOMAIN w : b.models[m][l] = r
            THEN w[r[2]] ELSE b.tensors[r]]]

\* Lines 291-292 (and 385-386): the file into 'train', then into 'test' by
\* name.
LoadBoth(b, w) ==
    LoadWeightsByName(LoadWeightsTopological(b, "train", w), "test", w)

\* The weights files load_weights can be pointed at: the file save_weights
\* wrote (0) and the checkpoints of save_dir, by epoch.
FileAt(k) == IF k = 0 THEN fs.weights_file ELSE WeightsFile(fs.ckpts[k])

LoadWeights(k) ==
    /\ ~run.active
    /\ obj.exists
    /\ k \in {0} \cup DOMAIN fs.ckpts
    /\ IF ~HasModel(obj, "train")
       THEN /\ last' = Call("load_weights", "error", "KeyError")
            /\ obj' = obj
       ELSE IF ~FileAt(k).present
       THEN /\ last' = Call("load_weights", "error", "OSError")
            /\ obj' = obj
       ELSE /\ obj' = LoadBoth(obj, FileAt(k).w)
            /\ last' = Call("load_weights", "ok", "")
    /\ UNCHANGED << fs, run >>

SaveWeights ==
    /\ ~run.active
    /\ obj.exists
    /\ IF ~HasModel(obj, "train")
       THEN /\ last' = Call("save_weights", "error", "KeyError")
            /\ fs' = fs
       ELSE /\ fs' = [fs EXCEPT !.weights_file =
                                   WeightsFile(WeightsOf(obj, "train"))]
            /\ last' = Call("save_weights", "ok", "")
    /\ UNCHANGED << obj, run >>

(***************************************************************************)
(* save (network.py 305-348)                                               *)
(***************************************************************************)
\* int(x * 100) of an accuracy in thousandths.
IntPercent(acc) == (acc * 100) \div 1000

\* The label lists save is given.
LabelLists == { <<"ann", "bob">> }

\* Where an I/O step of save can fail.
SaveFaults == {"none", "open", "to_yaml", "save_weights", "tar_add", "labels"}

\* f'{m}.yml'
YmlOf(m) == IF m = "train" THEN "train.yml" ELSE "test.yml"

\* The archive once every model of the bundle has its '<m>.yml' in it.
WithArchitectures(b) ==
    [EmptyArchive EXCEPT !.members = { YmlOf(m) : m \in b.names },
                         !.arch = b.arch]

WithWeights(a, b) ==
    [a EXCEPT !.members = @ \cup {"weights.h5"}, !.w = WeightsOf(b, "train")]

WithLabels(a, names) ==
    [a EXCEPT !.members = @ \cup {"labels.yml"}, !.labels = names,
              !.closed = TRUE]

\* The file name: '{today}_{self.bins}_{acc}.tar.gz' (the date is left out).
ArchiveName(b) ==
    [bins |-> b.bins,
     acc  |-> IF b.has_history
              THEN IntPercent(Max({ b.history[e].val_capsnet_acc :
                                    e \in 1..Len(b.history) }))
              ELSE 0]

Save(names, fault) ==
    /\ ~run.active
    /\ obj.exists
    /\ IF obj.has_history /\ obj.history = << >>
       THEN \* history.history has no 'val_capsnet_acc': KeyError, not the
            \* AttributeError that line 319 catches
            /\ last' = Call("save", "error", "KeyError")
            /\ fs' = fs
       ELSE IF ~obj.has_bins
       THEN \* self.bins (line 322) raises AttributeError
            /\ last' = Call("save", "error", "AttributeError")
            /\ fs' = fs
       ELSE LET name == ArchiveName(obj)
                a1   == WithArchitectures(obj)
                a2   == WithWeights(a1, obj)
                a3   == WithLabels(a2, names)
                put(a) == [fs EXCEPT !.archives = (name :> a) @@ @]
                err(e) == [Call("save", "error", e) EXCEPT !.arc = name]
            IN  CASE fault = "open" ->
                       /\ last' = err("OSError")
                       /\ fs' = fs
                  [] fault = "to_yaml" /\ obj.names # {} ->
                       /\ last' = err("to_yaml")
                       /\ fs' = put(EmptyArchive)
                  [] ~HasModel(obj, "train") ->
                       \* self._models['train'] (line 337) raises KeyError
                       \* inside the with block
                       /\ last' = err("KeyError")
                       /\ fs' = put(a1)
                  [] fault = "save_weights" ->
                       /\ last' = err("save_weights")
                       /\ fs' = [put(a1) EXCEPT !.tmp_weights =
                                                  WeightsFile(NoFile.w)]
                  [] fault = "tar_add" ->
                       /\ last' = err("tar_add")
                       /\ fs' = [put(a1) EXCEPT !.tmp_weights =
                                   WeightsFile(WeightsOf(obj, "train"))]
                  [] fault = "labels" ->
                       /\ last' = err("labels")
                       /\ fs' = [put(a2) EXCEPT !.tmp_weights = NoFile]
                  [] OTHER ->
                       /\ last' = [Call("save", "ok", "") EXCEPT
                                      !.arc = name, !.labels = names]
                       /\ fs' = [put(a3) EXCEPT !.tmp_weights = NoFile]
    /\ UNCHANGED << obj, run >>

(***************************************************************************)
(* load (network.py 350-395)                                               *)
(***************************************************************************)
\* Where a step of load can fail, other than on a missing member.
LoadFaults == {"none", "open", "from_yaml", "load_weights", "labels"}

\* Archives that did not come from save: a complete one, and one lacking
\* each member.
ForeignName == [bins |-> -2, acc |-> -2]

ForeignArchives ==
    LET full == [members |-> MEMBERS,
                 arch |-> BuiltArch(<<32, 32, 3>>, 2, DefaultImageSize),
                 w |-> [l \in TrainLayers |-> InitWeight(l) % WMod],
                 labels |-> <<"ann", "bob">>,
                 closed |-> TRUE]
    IN  {full} \cup { [full EXCEPT !.members = MEMBERS \ {m}] : m \in MEMBERS }

\* network._models[m] = model_from_yaml(...) for both names: models of
\* their own, freshly initialised.
Rebuilt(a) ==
    [EmptyBundle EXCEPT !.names = MODELS, !.arch = a.arch,
                        !.models = SeparateModels]

Load(name, a, fault) ==
    /\ ~run.active
    /\ LET err(e, built, weighted) ==
              [Call("load", "error", e) EXCEPT
                  !.arc = name, !.members = a.members,
                  !.self = [NoSelf EXCEPT !.built = built,
                                          !.weighted = weighted]]
           extracted == [fs EXCEPT !.cwd_weights = WeightsFile(a.w)]
           removed   == [fs EXCEPT !.cwd_weights = NoFile]
       IN  CASE fault = "open" \/ a.members = {} ->
                  /\ last' = err("ReadError", {}, {})
                  /\ UNCHANGED << obj, fs >>
             [] "train.yml" \notin a.members ->
                  /\ last' = err("KeyError", {}, {})
                  /\ UNCHANGED << obj, fs >>
             [] fault = "from_yaml" ->
                  /\ last' = err("from_yaml", {}, {})
                  /\ UNCHANGED << obj, fs >>
             [] "test.yml" \notin a.members ->
                  /\ last' = err("KeyError", {"train"}, {})
                  /\ UNCHANGED << obj, fs >>
             [] "weights.h5" \notin a.members ->
                  /\ last' = err("KeyError", MODELS, {})
                  /\ UNCHANGED << obj, fs >>
             [] fault = "load_weights" ->
                  \* 'weights.h5' was extracted and is not removed
                  /\ last' = err("load_weights", MODELS, {})
                  /\ fs' = extracted
                  /\ obj' = obj
             [] "labels.yml" \notin a.members ->
                  /\ last' = err("KeyError", MODELS, MODELS)
                  /\ fs' = removed
                  /\ obj' = obj
             [] fault = "labels" ->
                  /\ last' = err("labels", MODELS, MODELS)
                  /\ fs' = removed
                  /\ obj' = obj
             [] OTHER ->
                  /\ obj' = LoadBoth(Rebuilt(a), a.w)
                  /\ fs' = removed
                  /\ last' = [Call("load", "ok", "") EXCEPT
                                 !.arc = name, !.members = a.members,
                                 !.labels = a.labels]
    /\ UNCHANGED run

\* load of an archive of the archive directory.
LoadSaved(fault) ==
    \E name \in DOMAIN fs.archives : Load(name, fs.archives[name], fault)

\* load of an archive that came from elsewhere.
LoadForeign(fault) ==
    \E a \in ForeignArchives : Load(ForeignName, a, fault)

(***************************************************************************)
(* The life of a bundle: every operation, no I/O fault.                    *)
(***************************************************************************)
\* The constructor arguments tried: 32x32 RGB images, two bins (CtorSpec
\* tries the other configurations).
LifeShapes == { <<32, 32, 3>> }
LifeBins == {2}

\* The train calls tried: up to MaxLifeEpochs epochs.
LifeRuns ==
    { [epochs |-> n, val_loss |-> [e \in 1..n |-> 1],
       val_acc |-> [e \in 1..n |-> 575]] : n \in 0..MaxLifeEpochs }

Init ==
    /\ obj = Absent
    /\ fs \in { EmptyFs, [EmptyFs EXCEPT !.cwd_weights = UserFile] }
    /\ run = NoRun
    /\ last = NoCall

Next ==
    \/ \E s \in LifeShapes, b \in LifeBins, skip \in BOOLEAN : Construct(s, b, skip)
    \/ \E r \in LifeRuns : TrainBegin(r.epochs, r.val_loss, r.val_acc)
    \/ EpochEnd
    \/ TrainReturn
    \/ \E x \in Inputs : Predict(x)
    \/ \E x \in Inputs : Test(x)
    \/ Summary
    \/ \E k \in 0..MaxLifeEpochs : LoadWeights(k)
    \/ SaveWeights
    \/ \E names \in LabelLists : Save(names, "none")
    \/ LoadSaved("none")

Spec == Init /\ [][Next]_vars

(***************************************************************************)
(* save and load under I/O faults and damaged archives.                    *)
(***************************************************************************)
FaultInit ==
    /\ obj = Absent
    /\ fs = EmptyFs
    /\ run = NoRun
    /\ last = NoCall

FaultNext ==
    \/ Construct(<<32, 32, 3>>, 2, FALSE)
    \/ \E names \in LabelLists, f \in SaveFaults : Save(names, f)
    \/ \E f \in LoadFaults : LoadSaved(f)
    \/ \E f \in LoadFaults : LoadForeign(f)

FaultSpec == FaultInit /\ [][FaultNext]_vars

(***************************************************************************)
(* The constructor over many configurations, and a first use of what it    *)
(* built.                                                                  *)
(***************************************************************************)
CtorSizes == {8, 12, 28, 32}

CtorShapes ==
    { <<h, h, c>> : h \in CtorSizes, c \in {1, 3} }
    \cup { <<28, 32, 1>> }
    \cup { << >>, <<28, 28>>, <<28, 28, 1, 1>>, <<28, 0, 1>> }

CtorBins == {-1, 0, 1, 2, 5}

CtorInit ==
    /\ obj = Absent
    /\ fs = EmptyFs
    /\ run = NoRun
    /\ last = NoCall

CtorNext ==
    \/ \E s \in CtorShapes, b \in CtorBins, skip \in BOOLEAN : Construct(s, b, skip)
    \/ \E r \in LifeRuns : TrainBegin(r.epochs, r.val_loss, r.val_acc)
    \/ EpochEnd
    \/ TrainReturn

CtorSpec == CtorInit /\ [][CtorNext]_vars

(***************************************************************************)
(* One train run on a freshly constructed bundle (C2, C9).                 *)
(***************************************************************************)
\* A bundle as the constructor builds it for 32x32 RGB images and 2 bins.
BuiltBundle ==
    [Absent EXCEPT !.exists = TRUE, !.has_bins = TRUE, !.bins = 2,
                   !.names = MODELS,
                   !.arch = BuiltArch(<<32, 32, 3>>, 2, DefaultImageSize)]

AccVals == {500, 600, 700, 800}

\* Short runs: every sequence of validation accuracies, a flat loss.
ShortRuns ==
    UNION { { [epochs |-> n, val_loss |-> [e \in 1..n |-> 1], val_acc |-> a] :
              a \in [1..n -> AccVals] } : n \in 0..MaxShortEpochs }

\* The sets of at most k epochs out of 1..n.
RECURSIVE EpochSets(_, _)
EpochSets(n, k) ==
    IF k = 0 THEN { {} }
    ELSE LET S == EpochSets(n, k - 1)
         IN  S \cup { D \cup {i} : D \in S, i \in 1..n }

\* The validation loss of a long run: it improves by one at each epoch of
\* D, and at every other epoch either ties its best or is worse by one.
LossTraj(n, D, worse) ==
    [e \in 1..n |->
        (MaxDrops - Cardinality({d \in D : d <= e}))
        + (IF e \notin D /\ worse THEN 1 ELSE 0)]

\* Long runs: epoch caps around the patience window, a flat accuracy.
LongRuns ==
    { [epochs |-> n, val_loss |-> LossTraj(n, D, worse),
       val_acc |-> [e \in 1..n |-> 500]] :
      n \in {Patience, Patience + 1, MaxEpochs},
      D \in EpochSets(MaxEpochs, MaxDrops),
      worse \in BOOLEAN }

TrainRuns == ShortRuns \cup LongRuns

TrainInit ==
    /\ obj = BuiltBundle
    /\ fs = EmptyFs
    /\ run = NoRun
    /\ last = Call("init", "ok", "")

\* The first train call of the bundle.
FirstTrain ==
    /\ ~obj.has_history
    /\ \E r \in TrainRuns : TrainBegin(r.epochs, r.val_loss, r.val_acc)

TrainNext == FirstTrain \/ EpochEnd \/ TrainReturn

TrainSpec == TrainInit /\ [][TrainNext]_vars

\* The epoch loop is a plain loop: once entered it runs on.
FairTrainSpec ==
    TrainSpec /\ WF_vars(EpochEnd) /\ WF_vars(TrainReturn)

(* C2: during one train run a checkpoint weights.{epoch}.h5 exists for an
   epoch iff that epoch's validation accuracy is strictly greater than the
   accuracy of every earlier epoch of the run; the accuracies
   [0.5, 0.7, 0.6, 0.8] give exactly 3 checkpoints. *)
C2_CheckpointIffStrictlyBetter ==
    LET h == run.history
        better(e) == \A k \in 1..(e - 1) :
                        h[e].val_capsnet_acc > h[k].val_capsnet_acc
    IN  /\ DOMAIN fs.ckpts = { e \in 1..Len(h) : better(e) }
        /\ (run.val_acc = <<500, 700, 600, 800>> /\ run.epoch = 4)
              => Cardinality(DOMAIN fs.ckpts) = 3

\* The run of [0.5, 0.7, 0.6, 0.8] has returned, and so has one with a tie.
C2_Witness ==
    /\ last.op = "train" /\ last.res = "ok"
    /\ run.val_acc = <<500, 700, 600, 800>>
    /\ DOMAIN fs.ckpts = {1, 2, 4}

\* Epoch e of the losses L did not improve on the best of the epochs
\* before it (the first epoch always improves).
NotImproving(L, e) == e > 1 /\ L[e] >= Min({ L[k] : k \in 1..(e - 1) })

\* Epoch n completes a run of Patience consecutive epochs without
\* improvement.
PatienceSpent(L, n) ==
    n >= Patience /\ \A e \in (n - Patience + 1)..n : NotImproving(L, e)

\* The number of epochs a run of cap `epochs` over the losses L makes.
StopPoint(L, epochs) ==
    Min({ n \in 0..epochs : n = epochs \/ PatienceSpent(L, n) })

(* C9: a train run always terminates; it runs the epochs in order and
   returns exactly at the earlier of the epoch cap and the end of the first
   epoch that completes `patience` consecutive epochs without improvement
   of the validation loss; the history then holds one record per epoch. *)
C9_StopsAtCapOrPatience ==
    /\ (run.active ~> ~run.active)
    /\ [](run.active /\ run.epoch < StopPoint(run.val_loss, run.epochs)
            => ~ENABLED TrainReturn)
    /\ []((last.op = "train" /\ last.res = "ok")
            => /\ run.epoch = StopPoint(run.val_loss, run.epochs)
               /\ Len(obj.history) = run.epoch
               /\ \A e \in 1..run.epoch :
                    obj.history[e].val_loss = run.val_loss[e])

\* A run that early stopping ended before its cap, after a late improvement.
C9_Witness ==
    /\ last.op = "train" /\ last.res = "ok"
    /\ run.epoch < run.epochs
    /\ run.epoch > Patience + 1

(***************************************************************************)
(* The claims about the life of a bundle (Spec).                           *)
(***************************************************************************)
\* Every weight tensor of a layer of both models has one value in both.
Coherent(b) ==
    \A l \in TrainLayers \cap TestLayers :
        Weight(b, "train", l) = Weight(b, "test", l)

(* C1: in every reachable state of a populated bundle (constructed, trained,
   after load_weights, or returned by load) every weight tensor of a layer
   of both models has the same value in 'train' and in 'test'. *)
C1_ModelsShareWeights == Populated(obj) => Coherent(obj)

(* C3: archive round trip.  When save of bundle B has succeeded and the
   archive it wrote is loaded next, the loaded bundle's 'test' model has,
   layer by layer, the weights of B's 'test' model, predict gives the same
   value on every input, and the labels come back. *)
C3_ArchiveRoundTrip ==
    [][ ( /\ last.op = "save" /\ last.res = "ok"
          /\ last'.op = "load" /\ last'.res = "ok"
          /\ last'.arc = last.arc )
        => /\ \A l \in TestLayers :
                Weight(obj', "test", l) = Weight(obj, "test", l)
           /\ \A x \in Inputs : PredictValue(obj', x) = PredictValue(obj, x)
           /\ last'.labels = last.labels ]_vars

\* A bundle loaded from the archive of a trained bundle: its 'test' model
\* holds the archive's weights, which are not the initial ones.
C3_Witness ==
    /\ last.op = "load" /\ last.res = "ok"
    /\ last.arc \in DOMAIN fs.archives
    /\ WeightsOf(obj, "test") =
          [l \in TestLayers |-> fs.archives[last.arc].w[l]]
    /\ \E l \in TestLayers : Weight(obj, "test", l) # InitWeight(l) % WMod

(* C6: for every populated bundle without a training history (never
   trained, or returned by load) save succeeds and writes the archive
   '<date>_<bins>_0.tar.gz'; with a history (of at least one epoch) the
   accuracy field is the integer percentage of its best validation
   accuracy. *)
C6_SaveNamesArchive ==
    (last.op = "save" /\ Populated(obj))
    => /\ ~obj.has_history
          => /\ last.res = "ok"
             /\ last.arc = [bins |-> obj.arch.bins, acc |-> 0]
             /\ last.arc \in DOMAIN fs.archives
       /\ (obj.has_history /\ obj.history # << >>)
          => /\ last.res = "ok"
             /\ last.arc.bins = obj.arch.bins
             /\ \E e \in 1..Len(obj.history) :
                  /\ last.arc.acc * 10 <= obj.history[e].val_capsnet_acc
                  /\ obj.history[e].val_capsnet_acc < (last.arc.acc + 1) * 10
                  /\ \A k \in 1..Len(obj.history) :
                       obj.history[k].val_capsnet_acc
                         <= obj.history[e].val_capsnet_acc

\* The operations that use the models of a bundle.
UseOps == {"train", "test", "predict", "load_weights", "save_weights",
           "save", "summary"}

(* C7: on a bundle constructed with skip_init=True and not populated, every
   call of train, test, predict, load_weights, save_weights, save and
   summary ends in an error and changes neither the bundle nor the file
   system, and starts no training loop. *)
C7_EmptyBundleFailsCleanly ==
    [][ (obj.exists /\ obj.names = {} /\ last'.op \in UseOps)
        => /\ last'.res = "error"
           /\ obj' = obj
           /\ fs' = fs
           /\ run' = run ]_vars

\* save was called on an empty bundle, after a populated one had put an
\* archive and checkpoints on the disk.
C7_Witness ==
    /\ obj.exists /\ obj.names = {}
    /\ last.op = "save" /\ last.res = "error"
    /\ fs.save_dir

(***************************************************************************)
(* The claims about faults (FaultSpec).                                    *)
(***************************************************************************)
(* C4: whenever save or load ends in an error, no partial artifact is left:
   the temporary weights file ('<filepath>/tmp_weights', the extracted
   'weights.h5') is gone and no half-written archive is at the destination. *)
C4_NoPartialArtifacts ==
    (last.op \in {"save", "load"} /\ last.res = "error")
    => /\ ~fs.tmp_weights.present
       /\ ~fs.cwd_weights.present
       /\ \A n \in DOMAIN fs.archives : fs.archives[n].closed

(* C5: load of an archive lacking a member ends in an error, returns no
   bundle and no labels, and attempts no partial reconstruction: it has
   rebuilt no model and loaded weights into none. *)
C5_MissingMemberNoReconstruction ==
    (last.op = "load" /\ last.members # MEMBERS)
    => /\ last.res = "error"
       /\ last.labels = NoLabels
       /\ last.self.built = {}
       /\ last.self.weighted = {}

(***************************************************************************)
(* The claims about the constructor (CtorSpec).                            *)
(***************************************************************************)
(* C8: a bundle constructed with input_shape (H, W, C) and bins B gives,
   for a batch of N images, a 'train' classification output of shape
   (N, B) and a reconstruction of the shape of the batch, (N, H, W, C),
   and a 'test' output of shape (N, B). *)
C8_OutputShapes ==
    Populated(obj)
    => \A n \in 1..MaxBatch :
         /\ OutputShape(obj, "train", n) =
              << <<n, obj.bins>>, Batched(n, obj.arch.input_shape) >>
         /\ OutputShape(obj, "test", n) = << <<n, obj.bins>> >>

\* The configuration is invalid: input_shape is no (H, W, C) triple, or
\* bins is no positive integer.
InvalidConfig(args) == ~ValidShape(args.input_shape) \/ args.bins < 1

(* C10: constructing (skip_init=False) with an invalid configuration fails,
   and fails before any part of the graph is built and before any bundle
   state (self.bins) is set. *)
C10_InvalidConfigFailsFirst ==
    (last.op = "init" /\ ~last.args.skip_init /\ InvalidConfig(last.args))
    => /\ last.res = "error"
       /\ ~last.self.has_bins
       /\ last.self.layers = {}

(* C11: a successful load changes no file: the files of the current
   directory and their contents are the same after load returns as before
   the call, whatever the directory held (a file named 'weights.h5'
   included). *)
C11_LoadLeavesFilesAlone ==
    [][ (LoadSaved("none") /\ last'.res = "ok") => fs' = fs ]_vars

=============================================================================
